---- MODULE Spec2Model ----
(***************************************************************************)
(* Model of the rehearse player, src/src/soundtouchjs.d.ts lines 21-349    *)
(* (the App component that keeps lastProcessedBpm / lastProcessedPitch).   *)
(*                                                                         *)
(* React state is modelled by the committed value of every useState cell.  *)
(* A handler invoked by a user event reads the committed values (the       *)
(* closure of the latest render); an async function that is suspended at   *)
(* an await keeps the values its closure captured when it was invoked.     *)
(* Track objects live in a heap, because loadBuffers and processAllTracks  *)
(* copy the tracks record shallowly ({ ...x }) and then assign to fields   *)
(* of the inner objects, which stay shared with INITIAL_TRACKS and with    *)
(* the tracks state.                                                       *)
(***************************************************************************)
EXTENDS Integers, Sequences, FiniteSets, TLC

\* ----------------------------------------------------------------- bounds
\* user events: song selections, play/stop clicks, mute toggles and
\* slider changes.  What the environment does in answer (a fetch, a render
\* or Tone.start() resolving or failing, the timer firing, a source
\* reaching its end) is not counted.
MaxUserEvents == 4

\* ------------------------------------------------------------ environment
\* The library (fetched from /library.json): song names and their tempo.
Songs == {"A", "B"}
Tempo == [s \in Songs |-> IF s = "A" THEN 95 ELSE 120]
\* Slider positions the user is given: bpm = baseBpm + offset, and pitch.
BpmOffsets == {0, 25}
PitchValues == {0, 2}
\* The stems whose mute switch the user is given, and the stems at which
\* starting a source may fail (positions in TrackNames).
MuteInputs == {2}
ThrowInputs == {1, 3}

\* ------------------------------------------------------------------ types
Null == <<>>
Some(x) == <<x>>
Val(o) == o[1]

\* Object.keys order of the tracks record
TrackNames == <<"bass", "drums", "other", "vocals">>
NumTracks == Len(TrackNames)
TrackIdx == 1..NumTracks

\* AudioBuffer.length of the decoded stems (/stems/<artist>/<title>/*.mp3)
StemFrames ==
    [s \in Songs |-> IF s = "A" THEN <<950, 950, 950, 940>>
                                ELSE <<1200, 1200, 1200, 1200>>]

\* A decoded buffer of a song's stem, untransformed (decodeAudioData).
OriginalBuffer(song, i) ==
    [song |-> song, stem |-> TrackNames[i], bpm |-> Tempo[song],
     baseBpm |-> Tempo[song], pitch |-> 0, rendered |-> FALSE,
     frames |-> StemFrames[song][i]]

\* The buffer startRendering yields for original buffer b under the
\* SoundTouch tempo = bpm / baseBpm and pitch = 2^(semitones / 12).  The
\* OfflineAudioContext is created with originalBuffer.length, and the
\* buffer it renders has that many frames.
RenderedBuffer(b, rbpm, rbase, rpitch) ==
    [song |-> b.song, stem |-> b.stem, bpm |-> rbpm,
     baseBpm |-> rbase, pitch |-> rpitch, rendered |-> TRUE,
     frames |-> b.frames]

\* One TrackState object
TrackObject(buf, pbuf, m) == [buffer |-> buf, processedBuffer |-> pbuf, muted |-> m]

\* INITIAL_TRACKS: heap cells 1..NumTracks are its four inner objects.
INITIAL_TRACKS == [i \in TrackIdx |-> i]
InitialHeap == [i \in TrackIdx |-> TrackObject(Null, Null, FALSE)]

VARIABLES
    heap,               \* track objects, by reference
    selectedSong,       \* useState: Null or Some(song)
    tracks,             \* useState: [TrackIdx -> reference into heap]
    isLoading, isProcessing, isPlaying,
    baseBpm, bpm, pitchSemitones,
    sources,            \* useState: set of node ids
    lastProcessedBpm,   \* useState: Null or Some(bpm)
    lastProcessedPitch,
    nodes,              \* the AudioBufferSourceNodes that are running or that
                        \*   the sources state still refers to
    nextAttempt,        \* number of the next handlePlay invocation
    events,             \* number of user events so far
    load,               \* loadBuffers in flight: Null or Some(record)
    proc,               \* processAllTracks in flight: Null or Some(record)
    timers,             \* pending setTimeout callbacks (closures), in order
    plays,              \* handlePlay invocations suspended at await Tone.start()
    pre,                \* observation: the buffers and the processing state
                        \*   at the start of the load or render pass that is
                        \*   running or has failed (Null otherwise)
    last,               \* observation: the last user event, and how far
                        \*   the user events since the last slider or song
                        \*   change have got through play, stop, play
    renders             \* observation: per stem, the transform engine
                        \*   invocations since the last click on Play

vars == <<heap, selectedSong, tracks, isLoading, isProcessing, isPlaying,
          baseBpm, bpm, pitchSemitones, sources, lastProcessedBpm,
          lastProcessedPitch, nodes, nextAttempt, events, load, proc,
          timers, plays, pre, last, renders>>

BASE_BPM == 100

NoRenders == [i \in TrackIdx |-> 0]

\* The buffers the tracks state reaches, and the processing state.
Snapshot ==
    [buffer    |-> [i \in TrackIdx |-> heap[tracks[i]].buffer],
     processed |-> [i \in TrackIdx |-> heap[tracks[i]].processedBuffer],
     bpm       |-> lastProcessedBpm,
     pitch     |-> lastProcessedPitch]

Init ==
    /\ heap = InitialHeap
    /\ selectedSong = Null
    /\ tracks = INITIAL_TRACKS
    /\ isLoading = FALSE
    /\ isProcessing = FALSE
    /\ isPlaying = FALSE
    /\ baseBpm = BASE_BPM
    /\ bpm = BASE_BPM
    /\ pitchSemitones = 0
    /\ sources = {}
    /\ lastProcessedBpm = Null
    /\ lastProcessedPitch = 0
    /\ nodes = <<>>
    /\ nextAttempt = 1
    /\ events = 0
    /\ load = Null
    /\ proc = Null
    /\ timers = <<>>
    /\ plays = <<>>
    /\ pre = Null
    /\ last = [op |-> "init", playing |-> FALSE,
               seq |-> "none", dirty |-> FALSE]
    /\ renders = NoRenders


\* ---------------------------------------------------------------- helpers
\* The controls below the song select are rendered only when a song is
\* selected and no load is running, and are disabled while processing.
ControlsEnabled == selectedSong # Null /\ ~isLoading /\ ~isProcessing

\* A song select that is disabled while loading only.
SelectEnabled_WhileProcessing == ~isLoading

\* The song select itself is disabled while processing or loading.
SelectEnabled == ~(isProcessing \/ isLoading)

UserEvent == events < MaxUserEvents /\ events' = events + 1

\* How far the user events have got through the sequence play, stop, play
\* (clicks on the play button): a slider or song change starts it over, a
\* mute switch leaves it where it is.
Pattern(op) ==
    CASE op \in {"select", "tempo", "pitch"} -> "none"
      [] op = "toggleMute" -> last.seq
      [] op = "clickStop"  -> IF last.seq \in {"play", "stop"}
                              THEN "stop" ELSE "none"
      [] op = "clickStart" -> IF last.seq = "stop" THEN "replay" ELSE "play"

\* The observation of a user event: the handler, the isPlaying it read,
\* the place in the sequence, and the needsProcessing that the first play
\* of the sequence read.
Note(op) ==
    last' = [op |-> op, playing |-> isPlaying, seq |-> Pattern(op),
             dirty |-> CASE Pattern(op) = "none" -> FALSE
                         [] Pattern(op) = "play" /\ op = "clickStart" ->
                                \/ lastProcessedBpm = Null
                                \/ Some(bpm) # lastProcessedBpm
                                \/ pitchSemitones # lastProcessedPitch
                         [] OTHER -> last.dirty]

\* source.stop() on every node of the given sources array
StoppedNodes(srcs) ==
    [h \in DOMAIN nodes |->
        IF h \in srcs /\ nodes[h].state = "running"
        THEN [nodes[h] EXCEPT !.state = "stopped"]
        ELSE nodes[h]]

\* A node that is not running and that sources no longer refers to is
\* unreachable: it is dropped.
Collect(ns, srcs) ==
    [h \in {x \in DOMAIN ns : ns[x].state = "running" \/ x \in srcs} |-> ns[h]]

handleStop ==
    /\ nodes' = Collect(StoppedNodes(sources), {})
    /\ sources' = {}
    /\ isPlaying' = FALSE

\* "if (isPlaying) handleStop();" as the sliders and toggleMute do
StopIfPlaying ==
    IF isPlaying THEN handleStop ELSE UNCHANGED <<nodes, sources, isPlaying>>

\* handlePlay up to its await, called from a closure that captured the
\* given isPlaying and tracks: it returns at once when that isPlaying is
\* true, and is otherwise suspended at "await Tone.start()".
handlePlay(cPlaying, cTracks, attempt) ==
    IF cPlaying
    THEN plays' = plays
    ELSE plays' = Append(plays, [attempt |-> attempt, tracks |-> cTracks])

\* The first stem at or after position i whose buffer is loaded, in
\* Object.keys order (NumTracks + 1 when there is none).
NextLoaded(h, refs, i) ==
    LET S == {j \in i..NumTracks : h[refs[j]].buffer # Null}
    IN IF S = {} THEN NumTracks + 1 ELSE CHOOSE j \in S : \A k \in S : j <= k

\* ------------------------------------------------------------ loadBuffers
\* onChange of the song select (it fires when the selected value changes):
\* setSelectedSong, loadBuffers up to its first await, and the selectedSong
\* effects (setBpm, setBaseBpm).  The handlePlay that the timer of this
\* loadBuffers will call belongs to the render in which the song was
\* selected: its isPlaying and tracks are captured here.
SelectSong(song) ==
    /\ SelectEnabled
    /\ selectedSong # Some(song)
    /\ UserEvent
    /\ selectedSong' = Some(song)
    /\ isLoading' = TRUE
    /\ bpm' = Tempo[song]
    /\ baseBpm' = Tempo[song]
    /\ load' = Some([song |-> song, idx |-> 1,
                     isPlaying |-> isPlaying, tracks |-> tracks])
    /\ pre' = Some(Snapshot)
    /\ Note("select")
    /\ UNCHANGED <<heap, tracks, isProcessing, isPlaying, pitchSemitones,
                   sources, lastProcessedBpm, lastProcessedPitch, nodes,
                   nextAttempt, proc, timers, plays, renders>>

\* loadBuffers without "newTracks[track].processedBuffer = audioBuffer"
loadBuffersStep_BufferOnly ==
    /\ load # Null
    /\ LET l == Val(load)
           i == l.idx
           b == OriginalBuffer(l.song, i)
       IN /\ heap' = [heap EXCEPT ![INITIAL_TRACKS[i]] =
                        [@ EXCEPT !.buffer = Some(b)]]
          /\ IF i < NumTracks
             THEN /\ load' = Some([l EXCEPT !.idx = i + 1])
                  /\ UNCHANGED <<tracks, lastProcessedBpm, lastProcessedPitch,
                                 isLoading, timers, pre>>
             ELSE /\ load' = Null
                  /\ pre' = Null
                  /\ tracks' = INITIAL_TRACKS
                  /\ lastProcessedBpm' = Some(Tempo[l.song])
                  /\ lastProcessedPitch' = 0
                  /\ isLoading' = FALSE
                  /\ timers' = Append(timers, [isPlaying |-> l.isPlaying,
                                               tracks |-> l.tracks])
    /\ UNCHANGED <<selectedSong, isProcessing, isPlaying, baseBpm, bpm,
                   pitchSemitones, sources, nodes, nextAttempt, events, proc,
                   plays, last, renders>>

\* loadBuffers without setLastProcessedBpm(song.tempo) and
\* setLastProcessedPitch(0)
loadBuffersStep_KeepsLastProcessed ==
    /\ load # Null
    /\ LET l == Val(load)
           i == l.idx
           b == OriginalBuffer(l.song, i)
       IN /\ heap' = [heap EXCEPT ![INITIAL_TRACKS[i]] =
                        [@ EXCEPT !.buffer = Some(b), !.processedBuffer = Some(b)]]
          /\ IF i < NumTracks
             THEN /\ load' = Some([l EXCEPT !.idx = i + 1])
                  /\ UNCHANGED <<tracks, lastProcessedBpm, lastProcessedPitch,
                                 isLoading, timers, pre>>
             ELSE /\ load' = Null
                  /\ pre' = Null
                  /\ tracks' = INITIAL_TRACKS
                  /\ UNCHANGED <<lastProcessedBpm, lastProcessedPitch>>
                  /\ isLoading' = FALSE
                  /\ timers' = Append(timers, [isPlaying |-> l.isPlaying,
                                               tracks |-> l.tracks])
    /\ UNCHANGED <<selectedSong, isProcessing, isPlaying, baseBpm, bpm,
                   pitchSemitones, sources, nodes, nextAttempt, events, proc,
                   plays, last, renders>>

\* One stem fetched and decoded: the result is assigned to the fields of
\* newTracks[track], which is the inner object of INITIAL_TRACKS.  After
\* the last stem the state is set and the auto-play timer is scheduled.
loadBuffersStep ==
    /\ load # Null
    /\ LET l == Val(load)
           i == l.idx
           b == OriginalBuffer(l.song, i)
       IN /\ heap' = [heap EXCEPT ![INITIAL_TRACKS[i]] =
                        [@ EXCEPT !.buffer = Some(b), !.processedBuffer = Some(b)]]
          /\ IF i < NumTracks
             THEN /\ load' = Some([l EXCEPT !.idx = i + 1])
                  /\ UNCHANGED <<tracks, lastProcessedBpm, lastProcessedPitch,
                                 isLoading, timers, pre>>
             ELSE /\ load' = Null
                  /\ pre' = Null
                  /\ tracks' = INITIAL_TRACKS
                  /\ lastProcessedBpm' = Some(Tempo[l.song])
                  /\ lastProcessedPitch' = 0
                  /\ isLoading' = FALSE
                  /\ timers' = Append(timers, [isPlaying |-> l.isPlaying,
                                               tracks |-> l.tracks])
    /\ UNCHANGED <<selectedSong, isProcessing, isPlaying, baseBpm, bpm,
                   pitchSemitones, sources, nodes, nextAttempt, events, proc,
                   plays, last, renders>>

\* fetch, arrayBuffer or decodeAudioData rejects: loadBuffers ends there.
loadBuffersFail ==
    /\ load # Null
    /\ load' = Null
    /\ UNCHANGED <<heap, selectedSong, tracks, isLoading, isProcessing,
                   isPlaying, baseBpm, bpm, pitchSemitones, sources,
                   lastProcessedBpm, lastProcessedPitch, nodes, nextAttempt,
                   events, proc, timers, plays, pre, last, renders>>

\* The setTimeout callback: handlePlay of the render in which the song
\* was selected.
AutoPlayTimer ==
    /\ timers # <<>>
    /\ LET c == Head(timers)
       IN /\ handlePlay(c.isPlaying, c.tracks, nextAttempt)
          /\ nextAttempt' = IF c.isPlaying THEN nextAttempt ELSE nextAttempt + 1
    /\ timers' = Tail(timers)
    /\ UNCHANGED <<heap, selectedSong, tracks, isLoading, isProcessing,
                   isPlaying, baseBpm, bpm, pitchSemitones, sources,
                   lastProcessedBpm, lastProcessedPitch, nodes, load, proc,
                   pre, events, last, renders>>


\* ------------------------------------------------------- processAllTracks
\* processAllTracks without setLastProcessedPitch(pitchSemitones)
processAllTracksFrom_KeepsPitch(h, refs, i, rbpm, rbase, rpitch, attempt, done) ==
    LET j == NextLoaded(h, refs, i)
    IN IF j <= NumTracks
       THEN /\ proc' = Some([idx |-> j, tracks |-> refs,
                             originalBuffer |-> Val(h[refs[j]].buffer),
                             bpm |-> rbpm, baseBpm |-> rbase, pitch |-> rpitch,
                             attempt |-> attempt])
            /\ renders' = [done EXCEPT ![j] = @ + 1]
            /\ isProcessing' = TRUE
            /\ UNCHANGED <<tracks, lastProcessedBpm, lastProcessedPitch, plays>>
       ELSE /\ proc' = Null
            /\ renders' = done
            /\ tracks' = refs
            /\ lastProcessedBpm' = Some(rbpm)
            /\ lastProcessedPitch' = lastProcessedPitch
            /\ isProcessing' = FALSE
            /\ handlePlay(FALSE, refs, attempt)

\* processAllTracks from the loop position i on, up to its next await:
\* stems without a buffer are skipped; when a loaded stem is found the pass
\* waits for its render, and when none is left the pass installs its
\* results and handlePlayClick goes on to handlePlay.  done counts the
\* renders the pass has asked for so far.  newTracks is a
\* shallow copy of the tracks captured by the click, so it holds the same
\* references (refs); handlePlay runs in the closure of the click, whose
\* isPlaying is false.
processAllTracksFrom(h, refs, i, rbpm, rbase, rpitch, attempt, done) ==
    LET j == NextLoaded(h, refs, i)
    IN IF j <= NumTracks
       THEN /\ proc' = Some([idx |-> j, tracks |-> refs,
                             originalBuffer |-> Val(h[refs[j]].buffer),
                             bpm |-> rbpm, baseBpm |-> rbase, pitch |-> rpitch,
                             attempt |-> attempt])
            /\ renders' = [done EXCEPT ![j] = @ + 1]
            /\ isProcessing' = TRUE
            /\ UNCHANGED <<tracks, lastProcessedBpm, lastProcessedPitch, plays>>
       ELSE /\ proc' = Null
            /\ renders' = done
            /\ tracks' = refs
            /\ lastProcessedBpm' = Some(rbpm)
            /\ lastProcessedPitch' = rpitch
            /\ isProcessing' = FALSE
            /\ handlePlay(FALSE, refs, attempt)

\* processAllTracks that assigns the rendered buffer to buffer as well,
\* as loadBuffers does with the decoded one.
processAllTracksStep_OverwritesBuffer ==
    /\ proc # Null
    /\ LET p == Val(proc)
           r == RenderedBuffer(p.originalBuffer, p.bpm, p.baseBpm, p.pitch)
           h == [heap EXCEPT ![p.tracks[p.idx]] = [@ EXCEPT !.buffer = Some(r),
                                !.processedBuffer = Some(r)]]
       IN /\ heap' = h
          /\ processAllTracksFrom(h, p.tracks, p.idx + 1, p.bpm, p.baseBpm,
                                  p.pitch, p.attempt, renders)
    /\ pre' = IF proc' = Null THEN Null ELSE pre
    /\ UNCHANGED <<selectedSong, isLoading, isPlaying, baseBpm, bpm,
                   pitchSemitones, sources, nodes, nextAttempt, events, load,
                   timers, last>>

\* startRendering resolves for the stem being rendered: the rendered buffer
\* is assigned to newTracks[track].processedBuffer, a field of the object
\* the tracks state refers to as well.
processAllTracksStep ==
    /\ proc # Null
    /\ LET p == Val(proc)
           r == RenderedBuffer(p.originalBuffer, p.bpm, p.baseBpm, p.pitch)
           h == [heap EXCEPT ![p.tracks[p.idx]] = [@ EXCEPT !.processedBuffer = Some(r)]]
       IN /\ heap' = h
          /\ processAllTracksFrom(h, p.tracks, p.idx + 1, p.bpm, p.baseBpm,
                                  p.pitch, p.attempt, renders)
    /\ pre' = IF proc' = Null THEN Null ELSE pre
    /\ UNCHANGED <<selectedSong, isLoading, isPlaying, baseBpm, bpm,
                   pitchSemitones, sources, nodes, nextAttempt, events, load,
                   timers, last>>

\* startRendering rejects: processAllTracks and handlePlayClick end there.
processAllTracksFail ==
    /\ proc # Null
    /\ proc' = Null
    /\ UNCHANGED <<heap, selectedSong, tracks, isLoading, isProcessing,
                   isPlaying, baseBpm, bpm, pitchSemitones, sources,
                   lastProcessedBpm, lastProcessedPitch, nodes, nextAttempt,
                   events, load, timers, plays, pre, last, renders>>

\* -------------------------------------------------------- handlePlayClick
needsProcessing ==
    \/ lastProcessedBpm = Null
    \/ Some(bpm) # lastProcessedBpm
    \/ pitchSemitones # lastProcessedPitch

\* The play button while isPlaying: handleStop and return.
handlePlayClickStop ==
    /\ ControlsEnabled
    /\ isPlaying
    /\ UserEvent
    /\ handleStop
    /\ Note("clickStop")
    /\ UNCHANGED <<heap, selectedSong, tracks, isLoading, isProcessing,
                   baseBpm, bpm, pitchSemitones, lastProcessedBpm,
                   lastProcessedPitch, nextAttempt, load, proc, timers, plays,
                   pre, renders>>

\* handlePlayClick without the needsProcessing test: every play renders.
handlePlayClickStart_AlwaysRender ==
    /\ ControlsEnabled
    /\ ~isPlaying
    /\ UserEvent
    /\ nextAttempt' = nextAttempt + 1
    /\ processAllTracksFrom(heap, tracks, 1, bpm, baseBpm,
                            pitchSemitones, nextAttempt, NoRenders)
    /\ pre' = IF proc' = Null THEN Null ELSE Some(Snapshot)
    /\ Note("clickStart")
    /\ UNCHANGED <<heap, selectedSong, isLoading, isPlaying, baseBpm, bpm,
                   pitchSemitones, sources, nodes, load, timers>>

\* The play button while not playing: a render pass first when the
\* requested bpm or pitch differ from the last processed ones, then
\* handlePlay.
handlePlayClickStart ==
    /\ ControlsEnabled
    /\ ~isPlaying
    /\ UserEvent
    /\ nextAttempt' = nextAttempt + 1
    /\ IF needsProcessing
       THEN /\ processAllTracksFrom(heap, tracks, 1, bpm, baseBpm,
                                    pitchSemitones, nextAttempt, NoRenders)
            /\ pre' = IF proc' = Null THEN Null ELSE Some(Snapshot)
       ELSE /\ handlePlay(isPlaying, tracks, nextAttempt)
            /\ renders' = NoRenders
            /\ UNCHANGED <<tracks, isProcessing, lastProcessedBpm,
                           lastProcessedPitch, proc, pre>>
    /\ Note("clickStart")
    /\ UNCHANGED <<heap, selectedSong, isLoading, isPlaying, baseBpm, bpm,
                   pitchSemitones, sources, nodes, load, timers>>

\* ------------------------------------------------------------- handlePlay
\* The stems handlePlay creates a source for: those whose processedBuffer
\* is set, up to the stem (if any) at which creating or starting fails.
Started(refs, failAt) ==
    {i \in TrackIdx : /\ heap[refs[i]].processedBuffer # Null
                      /\ (failAt = 0 \/ i < failAt)}

\* A reading of audioCtx.currentTime by a handlePlay invocation that has
\* gone through k stems of its loop.  The clock may advance between two
\* readings: they are known to be equal only if they are the same reading.
currentTime(attempt, k) == <<attempt, k>>

\* handlePlay's loop with source.start(audioCtx.currentTime) in place of
\* source.start(now).
NewNodes_ClockPerStem(attempt, refs, failAt) ==
    [h \in {<<attempt, i>> : i \in Started(refs, failAt)} |->
        LET o == heap[refs[h[2]]]
        IN [buffer    |-> Val(o.processedBuffer),
            audible   |-> ~o.muted,
            startTime |-> currentTime(attempt, h[2]),
            state     |-> "running"]]

\* const now = audioCtx.currentTime, then for every started stem
\* createBufferSource, connect and start(now).
NewNodes(attempt, refs, failAt) ==
    LET now == currentTime(attempt, 0)
    IN [h \in {<<attempt, i>> : i \in Started(refs, failAt)} |->
          LET o == heap[refs[h[2]]]
          IN [buffer    |-> Val(o.processedBuffer),
              audible   |-> ~o.muted,
              startTime |-> now,
              state     |-> "running"]]

\* Tone.start() resolves for the oldest suspended handlePlay (promises of
\* one context resolve in the order of the calls): it creates,
\* connects and starts one source per stem of its closure's tracks, then
\* sets sources and isPlaying.
handlePlayResume ==
    /\ plays # <<>>
    /\ LET p == Head(plays)
           new == NewNodes(p.attempt, p.tracks, 0)
       IN /\ nodes' = Collect(new @@ nodes, DOMAIN new)
          /\ sources' = DOMAIN new
          /\ isPlaying' = TRUE
    /\ plays' = Tail(plays)
    /\ UNCHANGED <<heap, selectedSong, tracks, isLoading, isProcessing,
                   baseBpm, bpm, pitchSemitones, lastProcessedBpm,
                   lastProcessedPitch, nextAttempt, events, load, proc,
                   timers, pre, last, renders>>

\* createBufferSource, connect or start throws at stem failAt: the sources
\* started before it keep running, and nothing is set.
handlePlayThrow(failAt) ==
    /\ plays # <<>>
    /\ LET p == Head(plays)
       IN /\ heap[p.tracks[failAt]].processedBuffer # Null
          /\ nodes' = NewNodes(p.attempt, p.tracks, failAt) @@ nodes
    /\ plays' = Tail(plays)
    /\ UNCHANGED <<heap, selectedSong, tracks, isLoading, isProcessing,
                   isPlaying, baseBpm, bpm, pitchSemitones, sources,
                   lastProcessedBpm, lastProcessedPitch, nextAttempt, events,
                   load, proc, timers, pre, last, renders>>

\* The sources of one handlePlay invocation reach the end of their
\* buffers: they were started at one timestamp, and every processedBuffer
\* has the length of its original (the OfflineAudioContext is created with
\* originalBuffer.length).
NaturalEnd(attempt) ==
    /\ {h \in DOMAIN nodes : h[1] = attempt /\ nodes[h].state = "running"} # {}
    /\ nodes' = Collect([h \in DOMAIN nodes |->
                            IF h[1] = attempt /\ nodes[h].state = "running"
                            THEN [nodes[h] EXCEPT !.state = "ended"]
                            ELSE nodes[h]], sources)
    /\ UNCHANGED <<heap, selectedSong, tracks, isLoading, isProcessing,
                   isPlaying, baseBpm, bpm, pitchSemitones, sources,
                   lastProcessedBpm, lastProcessedPitch, nextAttempt, events,
                   load, proc, timers, plays, pre, last, renders>>

\* ------------------------------------------------------------- toggleMute
\* toggleMute without "if (isPlaying) handleStop();"
toggleMute_NoStop(i) ==
    /\ ControlsEnabled
    /\ UserEvent
    /\ heap' = Append(heap, [heap[tracks[i]] EXCEPT !.muted = ~@])
    /\ tracks' = [tracks EXCEPT ![i] = Len(heap) + 1]
    /\ Note("toggleMute")
    /\ UNCHANGED <<selectedSong, isLoading, isProcessing, isPlaying, baseBpm,
                   bpm, pitchSemitones, sources, lastProcessedBpm,
                   lastProcessedPitch, nodes, nextAttempt, load, proc,
                   timers, plays, pre, renders>>

\* toggleMute that builds the stem's new object from its original buffer
\* ({ buffer, processedBuffer: buffer, muted }) instead of copying it.
toggleMute_FromOriginal(i) ==
    /\ ControlsEnabled
    /\ UserEvent
    /\ StopIfPlaying
    /\ heap' = Append(heap, [heap[tracks[i]] EXCEPT
                                !.processedBuffer = heap[tracks[i]].buffer,
                                !.muted = ~@])
    /\ tracks' = [tracks EXCEPT ![i] = Len(heap) + 1]
    /\ Note("toggleMute")
    /\ UNCHANGED <<selectedSong, isLoading, isProcessing, baseBpm, bpm,
                   pitchSemitones, lastProcessedBpm, lastProcessedPitch,
                   nextAttempt, load, proc, timers, plays, pre, renders>>

\* setTracks((prev) => ({ ...prev, [track]: { ...prev[track], muted: ... } }))
\* puts a fresh copy of the stem's object into the tracks state.
toggleMute(i) ==
    /\ ControlsEnabled
    /\ UserEvent
    /\ StopIfPlaying
    /\ heap' = Append(heap, [heap[tracks[i]] EXCEPT !.muted = ~@])
    /\ tracks' = [tracks EXCEPT ![i] = Len(heap) + 1]
    /\ Note("toggleMute")
    /\ UNCHANGED <<selectedSong, isLoading, isProcessing, baseBpm, bpm,
                   pitchSemitones, lastProcessedBpm, lastProcessedPitch,
                   nextAttempt, load, proc, timers, plays, pre, renders>>

\* ---------------------------------------------------------------- sliders
TempoChange(v) ==
    /\ ControlsEnabled
    /\ v # bpm
    /\ UserEvent
    /\ StopIfPlaying
    /\ bpm' = v
    /\ Note("tempo")
    /\ UNCHANGED <<heap, selectedSong, tracks, isLoading, isProcessing,
                   baseBpm, pitchSemitones, lastProcessedBpm,
                   lastProcessedPitch, nextAttempt, load, proc, timers, plays,
                   pre, renders>>

PitchChange(v) ==
    /\ ControlsEnabled
    /\ v # pitchSemitones
    /\ UserEvent
    /\ StopIfPlaying
    /\ pitchSemitones' = v
    /\ Note("pitch")
    /\ UNCHANGED <<heap, selectedSong, tracks, isLoading, isProcessing,
                   baseBpm, bpm, lastProcessedBpm, lastProcessedPitch,
                   nextAttempt, load, proc, timers, plays, pre, renders>>

\* ------------------------------------------------------------------- Next
Next ==
    \/ \E song \in Songs : SelectSong(song)
    \/ loadBuffersStep
    \/ loadBuffersFail
    \/ AutoPlayTimer
    \/ processAllTracksStep
    \/ processAllTracksFail
    \/ handlePlayClickStop
    \/ handlePlayClickStart
    \/ handlePlayResume
    \/ \E k \in ThrowInputs : handlePlayThrow(k)
    \/ \E a \in {h[1] : h \in DOMAIN nodes} : NaturalEnd(a)
    \/ \E i \in MuteInputs : toggleMute(i)
    \/ \E d \in BpmOffsets : TempoChange(baseBpm + d)
    \/ \E v \in PitchValues : PitchChange(v)

Spec == Init /\ [][Next]_vars

\* The player with song "A" loaded: the state of Spec in which the first
\* loadBuffers has just returned (every stem decoded into the
\* INITIAL_TRACKS objects, the auto-play timer scheduled).  events counts
\* the user events from here on; the selection that led here is not
\* counted.
InitLoaded ==
    LET song == "A" IN
        /\ heap = [i \in TrackIdx |->
                     TrackObject(Some(OriginalBuffer(song, i)),
                                 Some(OriginalBuffer(song, i)), FALSE)]
        /\ selectedSong = Some(song)
        /\ tracks = INITIAL_TRACKS
        /\ isLoading = FALSE
        /\ isProcessing = FALSE
        /\ isPlaying = FALSE
        /\ baseBpm = Tempo[song]
        /\ bpm = Tempo[song]
        /\ pitchSemitones = 0
        /\ sources = {}
        /\ lastProcessedBpm = Some(Tempo[song])
        /\ lastProcessedPitch = 0
        /\ nodes = <<>>
        /\ nextAttempt = 1
        /\ events = 0
        /\ load = Null
        /\ proc = Null
        /\ timers = <<[isPlaying |-> FALSE, tracks |-> INITIAL_TRACKS]>>
        /\ plays = <<>>
        /\ pre = Null
        /\ last = [op |-> "select", playing |-> FALSE,
                   seq |-> "none", dirty |-> FALSE]
        /\ renders = NoRenders

SpecLoaded == InitLoaded /\ [][Next]_vars


\* ----------------------------------------------------------------- claims
Running(ns) == {h \in DOMAIN ns : ns[h].state = "running"}

\* loadBuffers / processAllTracks ended on a rejected await.
LoadFailed == isLoading /\ load = Null
RenderFailed == isProcessing /\ proc = Null

\* C1: at no time do sources created by two different handlePlay
\* invocations run simultaneously.
C1_OneSessionRunning ==
    \A g, h \in Running(nodes) : g[1] = h[1]

\* C2: after a render pass in which a later stem's render failed, every
\* stem's processedBuffer in the tracks state is the one it had before the
\* pass, and lastProcessedBpm / lastProcessedPitch are unchanged.
C2_PassAtomicity ==
    (RenderFailed /\ pre # Null) =>
        /\ Snapshot.processed = Val(pre).processed
        /\ lastProcessedBpm = Val(pre).bpm
        /\ lastProcessedPitch = Val(pre).pitch

\* C3: a load failure leaves isLoading false and a render failure leaves
\* isProcessing false, so that the controls are enabled again.
C3_FailureReturnsToReady ==
    [][/\ loadBuffersFail => ~isLoading' /\ ~isProcessing'
       /\ processAllTracksFail => ~isLoading' /\ ~isProcessing']_vars

\* C4: after a failed load, the buffer and processedBuffer of every stem and
\* lastProcessedBpm / lastProcessedPitch are what they were before the
\* song was selected.
C4_LoadAllOrNothing ==
    (LoadFailed /\ pre # Null) => Snapshot = Val(pre)

\* C5: selecting a song discards the active session: when loadBuffers has
\* begun for the selected song, isPlaying is false and no source is running.
C5_SelectDiscardsSession ==
    [][\A song \in Songs : SelectSong(song) =>
            /\ ~isPlaying'
            /\ Running(nodes') = {}]_vars

\* C6: no source node is created in a step taken while isLoading or
\* isProcessing is true.
C6_NoStartWhileBusy ==
    [][(isLoading \/ isProcessing) => DOMAIN nodes' \subseteq DOMAIN nodes]_vars

\* Every source of the session that the state holds has reached its end.
SessionEnded ==
    /\ isPlaying
    /\ sources # {}
    /\ \A h \in sources : nodes[h].state = "ended"

\* C7: after every source of the session has ended by itself, one click on
\* the play button starts a new session (a render pass first if needed).
C7_PlayAfterNaturalEnd ==
    [][(SessionEnded /\ (handlePlayClickStop \/ handlePlayClickStart)) =>
            (Len(plays') > Len(plays) \/ proc' # Null)]_vars

\* C8: when starting a source fails during handlePlay, no source of that
\* invocation is left running, sources is empty and isPlaying is false.
C8_FailedStartTornDown ==
    [][\A k \in ThrowInputs : handlePlayThrow(k) =>
            /\ \A h \in Running(nodes') : h[1] # Head(plays).attempt
            /\ sources' = {}
            /\ ~isPlaying']_vars

\* The track state of stem j as the tracks state shows it.
Track(j) == heap[tracks[j]]

\* toggleMute(i) changes, of the tracks state, the muted flag of stem i only.
OnlyMutedFlips(i) ==
    \A j \in TrackIdx :
        Track(j)' = IF j = i THEN [Track(j) EXCEPT !.muted = ~@] ELSE Track(j)

\* C9 (as claimed): toggleMute leaves every running source running, with its
\* routing, and leaves isPlaying and sources unchanged; only the stem's
\* muted flag changes.
C9_ToggleMuteLeavesSession ==
    [][\A i \in MuteInputs : toggleMute(i) =>
            /\ nodes' = nodes
            /\ sources' = sources
            /\ isPlaying' = isPlaying
            /\ OnlyMutedFlips(i)]_vars

\* C9 (as amended): toggleMute invoked while isPlaying is true calls
\* handleStop: no source of sources is running afterwards, sources is
\* empty and isPlaying is false; invoked while isPlaying is false it leaves
\* the sources, isPlaying and every node unchanged.  In both cases the
\* sources outside the sources state keep running with their routing, no
\* surviving node changes its routing, and only the stem's muted flag
\* changes in the tracks state.
C9_ToggleMuteStopsSession ==
    [][\A i \in MuteInputs : toggleMute(i) =>
            /\ isPlaying =>
                 /\ \A h \in sources : h \notin Running(nodes')
                 /\ sources' = {}
                 /\ ~isPlaying'
            /\ ~isPlaying =>
                 /\ nodes' = nodes
                 /\ sources' = sources
                 /\ isPlaying' = isPlaying
            /\ \A h \in Running(nodes) \ sources :
                 h \in DOMAIN nodes' /\ nodes'[h] = nodes[h]
            /\ \A h \in DOMAIN nodes \cap DOMAIN nodes' :
                 nodes'[h].audible = nodes[h].audible
            /\ OnlyMutedFlips(i)]_vars

\* C9 witness: the last user event was a toggleMute that found a session
\* playing, and it has stopped it.
C9_ToggleWhilePlaying ==
    /\ last.op = "toggleMute"
    /\ last.playing
    /\ ~isPlaying
    /\ sources = {}
    /\ \E i \in MuteInputs : Track(i).muted

\* A handler that calls handleStop: the play button, a mute switch or a
\* slider, while isPlaying.
HandleStopCalled ==
    /\ isPlaying
    /\ \/ handlePlayClickStop
       \/ \E i \in MuteInputs : toggleMute(i)
       \/ \E d \in BpmOffsets : TempoChange(baseBpm + d)
       \/ \E v \in PitchValues : PitchChange(v)

\* C10: after handleStop no source started by any earlier handlePlay is
\* running, sources is empty and isPlaying is false.
C10_StopHaltsEverything ==
    [][HandleStopCalled =>
            /\ Running(nodes') = {}
            /\ sources' = {}
            /\ ~isPlaying']_vars

\* ------------------------------------------------------------------- C11
\* The track state of stem j holds a buffer that startRendering produced.
Rendered(j) ==
    /\ Track(j).processedBuffer # Null
    /\ Val(Track(j).processedBuffer).rendered

\* C11: a render pass is in flight only for a bpm or pitch that differ from
\* the last processed ones; the pass of a play asks the transform engine
\* once for every loaded stem when that play found the state dirty (and
\* not at all otherwise); and the second play of a sequence play, stop,
\* play without a slider or song change in between asks it for nothing.
C11_RenderIdempotent ==
    /\ proc # Null =>
            \/ Some(Val(proc).bpm) # lastProcessedBpm
            \/ Val(proc).pitch # lastProcessedPitch
    /\ \A j \in TrackIdx : renders[j] <= 1
    /\ (last.seq \in {"play", "stop"} /\ ~isProcessing) =>
            \A j \in TrackIdx :
                renders[j] = IF last.dirty /\ Track(j).buffer # Null THEN 1 ELSE 0
    /\ last.seq = "replay" =>
            /\ renders = NoRenders
            /\ proc = Null
            /\ ~isProcessing

\* C11 witness: the second play of play, stop, play is playing, and the
\* first play of the sequence had rendered every stem.
C11_SecondPlayPlaying ==
    /\ last.seq = "replay"
    /\ last.dirty
    /\ isPlaying
    /\ sources # {}
    /\ \A j \in TrackIdx : Rendered(j)

\* ------------------------------------------------------------------- C12
\* C12: toggleMute leaves the buffer and processedBuffer of every stem, the
\* last processed and the requested bpm and pitch as they are, so that
\* needsProcessing keeps its value, and it starts no render.
C12_MuteIndependence ==
    [][\A i \in MuteInputs : toggleMute(i) =>
            /\ \A j \in TrackIdx :
                   /\ Track(j)'.buffer = Track(j).buffer
                   /\ Track(j)'.processedBuffer = Track(j).processedBuffer
            /\ lastProcessedBpm' = lastProcessedBpm
            /\ lastProcessedPitch' = lastProcessedPitch
            /\ bpm' = bpm
            /\ baseBpm' = baseBpm
            /\ pitchSemitones' = pitchSemitones
            /\ needsProcessing' = needsProcessing
            /\ proc' = proc
            /\ isProcessing' = isProcessing
            /\ renders' = renders]_vars

\* C12 witness: a mute switch was used on a stem whose processedBuffer is a
\* rendered one, and the state is not dirty.
C12_ToggledRenderedStem ==
    /\ last.op = "toggleMute"
    /\ \E i \in MuteInputs : Track(i).muted /\ Rendered(i)
    /\ ~needsProcessing

\* ------------------------------------------------------------------- C13
\* C13: a processedBuffer rendered from an original of N frames at tempo
\* ratio r = bpm / baseBpm has N / r frames up to one frame, that is
\* | frames * bpm - N * baseBpm | <= bpm.
C13_MonotonicDuration ==
    \A j \in TrackIdx :
        Rendered(j) =>
            LET out == Val(Track(j).processedBuffer)
                d   == out.frames * out.bpm - Val(Track(j).buffer).frames * out.baseBpm
            IN  d <= out.bpm /\ -d <= out.bpm

\* ------------------------------------------------------------------- C14
\* C14: a source is connected to the destination iff the muted flag of its
\* stem in the tracks state is false when it is started, and the routing
\* of a source never changes afterwards.
C14_RoutingFollowsMuted ==
    [][/\ \A h \in DOMAIN nodes' \ DOMAIN nodes :
              nodes'[h].audible = ~Track(h[2]).muted
       /\ \A h \in DOMAIN nodes' \cap DOMAIN nodes :
              nodes'[h].audible = nodes[h].audible]_vars

\* ------------------------------------------------------------------- C15
\* C15: a handlePlay invocation that runs its loop to the end creates
\* exactly one source for every stem whose processedBuffer is set and none
\* for the other stems, and all sources of one invocation (of one that
\* failed on the way as well) are started with the same timestamp.
C15_OneHandlePerStemOneTimestamp ==
    [][/\ handlePlayResume =>
            LET p == Head(plays)
                S == {i \in TrackIdx : heap[p.tracks[i]].processedBuffer # Null}
            IN /\ sources' = {<<p.attempt, i>> : i \in S}
               /\ Cardinality(sources') = Cardinality(S)
               /\ sources' \subseteq Running(nodes')
       /\ \A g, h \in DOMAIN nodes' :
              g[1] = h[1] => nodes'[g].startTime = nodes'[h].startTime]_vars

\* C15 witness: a session of four running sources whose buffers differ in
\* their frame counts.
C15_SessionOfUnequalStems ==
    /\ isPlaying
    /\ Cardinality(sources) = NumTracks
    /\ sources \subseteq Running(nodes)
    /\ \E g, h \in sources : nodes[g].buffer.frames # nodes[h].buffer.frames

\* ------------------------------------------------------------------- C16
\* processAllTracks returns: its results are installed by this step.
PassInstalled == proc # Null /\ proc' = Null /\ ~isProcessing'

\* C16: when a pass has installed its results, lastProcessedBpm and
\* lastProcessedPitch are the requested bpm and pitchSemitones, and the
\* processedBuffer of every loaded stem is the render of its buffer with
\* these values that this pass asked for.
C16_PassInstallsRequested ==
    [][PassInstalled =>
            /\ lastProcessedBpm' = Some(bpm')
            /\ lastProcessedPitch' = pitchSemitones'
            /\ \A j \in TrackIdx :
                   Track(j)'.buffer # Null =>
                       /\ renders'[j] = 1
                       /\ Track(j)'.processedBuffer =
                            Some(RenderedBuffer(Val(Track(j)'.buffer), bpm',
                                                baseBpm', pitchSemitones'))]_vars

\* C16 witness: a pass for a changed pitch has installed its results.
C16_PassDone ==
    /\ last.op = "clickStart"
    /\ last.dirty
    /\ ~isProcessing
    /\ pitchSemitones # 0
    /\ lastProcessedPitch = pitchSemitones
    /\ \A j \in TrackIdx : Rendered(j)

\* ------------------------------------------------------------------- C17
\* C17: while isLoading or isProcessing is true, the buffer and the
\* processedBuffer of every stem of the tracks state are those from before
\* the load or render pass began.
C17_TracksSetOnlyAtEnd ==
    ((isLoading \/ isProcessing) /\ pre # Null) =>
        /\ Snapshot.buffer = Val(pre).buffer
        /\ Snapshot.processed = Val(pre).processed

\* ------------------------------------------------------------------- C18
\* A step of processAllTracks: its start in handlePlayClick, a render
\* resolving (the last one installs the results), or a render rejecting.
PassStep ==
    \/ handlePlayClickStart /\ needsProcessing
    \/ processAllTracksStep
    \/ processAllTracksFail

\* C18: from the start of a pass to its end, whether it succeeds or fails,
\* the buffer and the muted flag of every stem stay what they are: no step
\* of the pass, and no step taken while the pass is in flight, changes them.
C18_PassLeavesOriginalAndMuted ==
    [][(PassStep \/ proc # Null) =>
            \A j \in TrackIdx :
                /\ Track(j)'.buffer = Track(j).buffer
                /\ Track(j)'.muted = Track(j).muted]_vars

\* C18 witness: a pass has installed its results for tracks of which one
\* is muted.
C18_PassDoneWithMutedStem ==
    /\ last.op = "clickStart"
    /\ last.dirty
    /\ ~isProcessing
    /\ \A j \in TrackIdx : Rendered(j) /\ ~Val(Track(j).buffer).rendered
    /\ \E i \in MuteInputs : Track(i).muted

\* ------------------------------------------------------------------- C19
\* C19: in every state, the states between the awaits of loadBuffers and
\* processAllTracks and those after a failed load included, every stem of
\* the tracks state (and every track object) has a processedBuffer iff it
\* has a buffer.
C19_ProcessedIffBuffer ==
    /\ \A j \in TrackIdx :
           Track(j).processedBuffer = Null <=> Track(j).buffer = Null
    /\ \A c \in DOMAIN heap :
           heap[c].processedBuffer = Null <=> heap[c].buffer = Null

\* C19 witness: a load has failed after its first stem and before its last.
C19_LoadFailedHalfway ==
    /\ LoadFailed
    /\ Track(1).buffer # Null
    /\ Track(NumTracks).buffer = Null

\* ------------------------------------------------------------------- C20
\* C20: from the start of a pass to the installation of its results the
\* selected song, bpm, baseBpm and pitchSemitones do not change and no
\* song is selected, no slider moved and no second pass requested; the
\* results installed are those for the bpm and pitch requested then.
C20_OnlyLatestPassAdopted ==
    [][/\ (PassStep \/ proc # Null) =>
              /\ selectedSong' = selectedSong
              /\ bpm' = bpm
              /\ baseBpm' = baseBpm
              /\ pitchSemitones' = pitchSemitones
       /\ proc # Null =>
              /\ ~handlePlayClickStart
              /\ ~(\E song \in Songs : SelectSong(song))
              /\ ~(\E d \in BpmOffsets : TempoChange(baseBpm + d))
              /\ ~(\E v \in PitchValues : PitchChange(v))
       /\ PassInstalled =>
              /\ Val(proc).bpm = bpm'
              /\ Val(proc).baseBpm = baseBpm'
              /\ Val(proc).pitch = pitchSemitones'
              /\ lastProcessedBpm' = Some(Val(proc).bpm)
              /\ lastProcessedPitch' = Val(proc).pitch]_vars

\* C20 witness: a pass for a changed tempo has installed its results.
C20_TempoPassAdopted ==
    /\ last.op = "clickStart"
    /\ last.dirty
    /\ ~isProcessing
    /\ bpm # baseBpm
    /\ lastProcessedBpm = Some(bpm)
    /\ \A j \in TrackIdx : Rendered(j) /\ Val(Track(j).processedBuffer).bpm = bpm

\* ------------------------------------------------------------------- C21
\* C21: every source plays, from its start on, the processedBuffer that
\* the tracks state holds for its stem when the source is started.
C21_SessionPlaysCurrentBuffers ==
    [][\A h \in DOMAIN nodes' \ DOMAIN nodes :
            Some(nodes'[h].buffer) = Track(h[2]).processedBuffer]_vars

\* ------------------------------------------------------------------- C22
\* C22: whenever isPlaying is true, the requested bpm is lastProcessedBpm
\* and the requested pitchSemitones is lastProcessedPitch.
C22_HeardMatchesControls ==
    isPlaying =>
        /\ lastProcessedBpm = Some(bpm)
        /\ lastProcessedPitch = pitchSemitones

\* ------------------------------------------------------------------- C23
\* No load and no render is in progress, and every stem is loaded.
SongReady ==
    /\ selectedSong # Null
    /\ ~isLoading
    /\ ~isProcessing
    /\ \A j \in TrackIdx : Track(j).buffer # Null

\* The processedBuffer of stem j is what lastProcessedBpm, baseBpm and
\* lastProcessedPitch say: the render of the stem's buffer with them, or
\* the buffer itself when they are the song's tempo and 0.
Describes(j) ==
    LET b  == Val(Track(j).buffer)
        pb == Val(Track(j).processedBuffer)
    IN /\ lastProcessedBpm # Null
       /\ Track(j).processedBuffer # Null
       /\ \/ pb = RenderedBuffer(b, Val(lastProcessedBpm), baseBpm,
                                  lastProcessedPitch)
          \/ /\ pb = b
             /\ ~b.rendered
             /\ lastProcessedBpm = Some(b.bpm)
             /\ baseBpm = b.baseBpm
             /\ lastProcessedPitch = 0

\* C23: when no load and no render is in progress and a song is loaded,
\* every stem's processedBuffer is the transform of its buffer that the
\* last processed values describe; so when needsProcessing is false, it is
\* the transform for the requested bpm and pitchSemitones.
C23_ProcessingStateDescribesBuffers ==
    SongReady =>
        /\ \A j \in TrackIdx : Describes(j)
        /\ ~needsProcessing =>
               \A j \in TrackIdx :
                   LET pb == Val(Track(j).processedBuffer)
                   IN /\ pb.bpm = bpm
                      /\ pb.baseBpm = baseBpm
                      /\ pb.pitch = pitchSemitones
                      /\ pb.song = Val(selectedSong)

\* C23 witness: the song is ready with every stem rendered for a changed
\* tempo and a changed pitch, and the dirty-check is clean.
C23_RenderedForBothControls ==
    /\ SongReady
    /\ ~needsProcessing
    /\ bpm # baseBpm
    /\ pitchSemitones # 0
    /\ \A j \in TrackIdx : Rendered(j)

====
